---- MODULE Spec2Model ----
(***************************************************************************)
(* Markdown-to-RSS.py as a state machine.                                  *)
(*                                                                         *)
(* Text is a sequence of one-character strings, so that the regular        *)
(* expressions, str.strip, str.split, html.escape and the XML writer are   *)
(* computed character by character as the Python code computes them.       *)
(* Optional values (Optional[datetime], Optional[str], a pending           *)
(* exception) are None == <<>> or Some(x) == <<x>>.                        *)
(***************************************************************************)
EXTENDS Integers, Sequences, FiniteSets

\* ------------------------------------------------------------- bounds
\* The input file holds at most MaxLines lines.
MaxLines == 3

\* ------------------------------------------------------------- text helpers
None == <<>>
Some(x) == <<x>>

WS == {" ", "\n", "\t", "\r"}
Digits == {"0", "1", "2", "3", "4", "5", "6", "7", "8", "9"}
Letters == {"a", "b", "c", "d", "e", "f", "g", "h", "i", "j", "k", "l", "m",
            "n", "o", "p", "q", "r", "s", "t", "u", "v", "w", "x", "y", "z",
            "A", "B", "C", "D", "E", "F", "G", "H", "I", "J", "K", "L", "M",
            "N", "O", "P", "Q", "R", "S", "T", "U", "V", "W", "X", "Y", "Z"}

DigitVal(c) ==
    CASE c = "0" -> 0 [] c = "1" -> 1 [] c = "2" -> 2 [] c = "3" -> 3
      [] c = "4" -> 4 [] c = "5" -> 5 [] c = "6" -> 6 [] c = "7" -> 7
      [] c = "8" -> 8 [] c = "9" -> 9

DigitChar(n) ==
    CASE n = 0 -> "0" [] n = 1 -> "1" [] n = 2 -> "2" [] n = 3 -> "3"
      [] n = 4 -> "4" [] n = 5 -> "5" [] n = 6 -> "6" [] n = 7 -> "7"
      [] n = 8 -> "8" [] n = 9 -> "9"

\* s[i:] starts with p (i is 1-based).
StartsWithAt(s, i, p) ==
    /\ i >= 1
    /\ i + Len(p) - 1 <= Len(s)
    /\ \A k \in 1..Len(p) : s[i + k - 1] = p[k]

\* The least position >= from at which p occurs in s, 0 when there is none.
Find(s, p, from) ==
    LET hits == {i \in from..Len(s) : StartsWithAt(s, i, p)}
    IN  IF hits = {} THEN 0 ELSE CHOOSE i \in hits : \A j \in hits : i <= j

\* s[a..b] as Python's s[a-1:b]; empty when b < a.
Slice(s, a, b) == IF b < a THEN <<>> ELSE SubSeq(s, a, b)

\* str.strip(): whitespace removed from both ends.
Strip(s) ==
    LET keep == {i \in 1..Len(s) : s[i] \notin WS}
    IN  IF keep = {} THEN <<>>
        ELSE Slice(s, CHOOSE i \in keep : \A j \in keep : i <= j,
                      CHOOSE i \in keep : \A j \in keep : i >= j)

\* str.split(','): the pieces between the commas, in order (always >= 1 piece).
RECURSIVE Split(_, _)
Split(s, sep) ==
    LET i == Find(s, <<sep>>, 1)
    IN  IF i = 0 THEN <<s>>
        ELSE <<Slice(s, 1, i - 1)>> \o Split(Slice(s, i + 1, Len(s)), sep)

\* The concatenation of a sequence of texts.
RECURSIVE Flatten(_)
Flatten(ss) == IF ss = <<>> THEN <<>> ELSE Head(ss) \o Flatten(Tail(ss))

\* The position after the maximal run of whitespace that starts at i (regex \s*).
RECURSIVE SkipWs(_, _)
SkipWs(s, i) == IF i <= Len(s) /\ s[i] \in WS THEN SkipWs(s, i + 1) ELSE i

\* ------------------------------------------------------------- literals
H1Open == <<"<", "h", "1", ">">>
H1Close == <<"<", "/", "h", "1", ">">>
POpen == <<"<", "p", ">">>
PClose == <<"<", "/", "p", ">">>
CategoriesKey == <<"C", "a", "t", "e", "g", "o", "r", "i", "e", "s", ":">>
AuthorKey == <<"A", "u", "t", "h", "o", "r", ":">>
AmpEnt == <<"&", "a", "m", "p", ";">>
LtEnt == <<"&", "l", "t", ";">>
GtEnt == <<"&", "g", "t", ";">>
QuotEnt == <<"&", "q", "u", "o", "t", ";">>
AposEnt == <<"&", "#", "x", "2", "7", ";">>

\* html.escape(s) with quote=True.
RECURSIVE escape(_)
escape(s) ==
    IF s = <<>> THEN <<>>
    ELSE LET c == Head(s)
             e == CASE c = "&" -> AmpEnt
                    [] c = "<" -> LtEnt
                    [] c = ">" -> GtEnt
                    [] c = "\"" -> QuotEnt
                    [] c = "'" -> AposEnt
                    [] OTHER -> <<c>>
         IN  e \o escape(Tail(s))

\* ------------------------------------------------------------- the input
\* The lines an input file is made of: blank, two headings (one whose title
\* holds '<' and '&'), a date that parses, a date that matches the numeric
\* pattern and is no calendar date, a Categories line, an Author line, a line
\* with an allowed tag and an anchor carrying a disallowed attribute, and a
\* line with a disallowed tag.
LineBlank == <<>>
LineHeadingPlain == <<"#", " ", "T">>
LineHeadingAmp == <<"#", " ", "A", "<", "B", "&", "C">>
LineDateOk == <<"2", "0", "2", "4", "-", "0", "1", "-", "1", "5">>
LineDateBad == <<"2", "0", "2", "3", "-", "0", "2", "-", "3", "0">>
LineCategories == <<"C", "a", "t", "e", "g", "o", "r", "i", "e", "s", ":", " ", "A", ",", " ", "B">>
LineAuthor == <<"A", "u", "t", "h", "o", "r", ":", " ", "X">>
LineRich == <<"<", "e", "m", ">", "e", "<", "/", "e", "m", ">", "<", "a", " ", "h", "r", "e", "f", "=", "\"", "u", "\"", " ", "o", "n", "c", "l", "i", "c", "k", "=", "\"", "o", "\"", ">", "t", "<", "/", "a", ">">>
LineScript == <<"x", "<", "s", "c", "r", "i", "p", "t", ">", "s", "<", "/", "s", "c", "r", "i", "p", "t", ">">>

InputLines == {LineBlank, LineHeadingPlain, LineHeadingAmp, LineDateOk, LineDateBad,
               LineCategories, LineAuthor, LineRich, LineScript}

\* The contents an input file can have, as its lines.
InputFiles == UNION {[1..n -> InputLines] : n \in 0..MaxLines}

\* --date-format: the default and one alternative.
FmtHyphen == <<"%", "Y", "-", "%", "m", "-", "%", "d">>
FmtSlash == <<"%", "Y", "/", "%", "m", "/", "%", "d">>
DateFormats == {FmtHyphen, FmtSlash}

\* --title, --description, --link.
FeedTitle == <<"F", "&", "G">>
FeedDescription == <<"d">>
FeedLink == <<"u">>

\* ------------------------------------------------------------- markdown.markdown
\* The renderer is a library; this is what it does on the input lines above:
\* "# text" is a top-level heading, a run of other non-blank lines is one
\* paragraph with its lines joined by newlines, the blocks are joined by
\* newlines, inline tags pass through, and '&', a '<' that opens no tag and
\* '>' in text become entities.
IsHeadingLine(l) == StartsWithAt(l, 1, <<"#", " ">>)

IsInlineTagAt(s, i) ==
    /\ s[i] = "<"
    /\ \/ i + 1 <= Len(s) /\ s[i + 1] \in Letters
       \/ i + 2 <= Len(s) /\ s[i + 1] = "/" /\ s[i + 2] \in Letters
    /\ \E j \in (i + 1)..Len(s) :
          /\ s[j] = ">"
          /\ \A k \in (i + 1)..(j - 1) : s[k] \notin {"<", ">"}

\* The position of the '>' closing the tag that opens at i.
TagEnd(s, i) == CHOOSE j \in (i + 1)..Len(s) :
                   s[j] = ">" /\ \A k \in (i + 1)..(j - 1) : s[k] # ">"

RECURSIVE RenderInline(_, _)
RenderInline(s, i) ==
    IF i > Len(s) THEN <<>>
    ELSE IF IsInlineTagAt(s, i)
         THEN Slice(s, i, TagEnd(s, i)) \o RenderInline(s, TagEnd(s, i) + 1)
         ELSE (CASE s[i] = "&" -> AmpEnt
                 [] s[i] = "<" -> LtEnt
                 [] s[i] = ">" -> GtEnt
                 [] OTHER -> <<s[i]>>) \o RenderInline(s, i + 1)

RenderHeading(l) == H1Open \o RenderInline(Strip(Slice(l, 2, Len(l))), 1) \o H1Close

RenderParagraph(para) == POpen \o RenderInline(para, 1) \o PClose

\* The rendered blocks of the lines, para being the paragraph lines read so far.
RECURSIVE RenderBlocks(_, _)
RenderBlocks(lines, para) ==
    LET flush == IF para = <<>> THEN <<>> ELSE <<RenderParagraph(para)>>
    IN  IF lines = <<>> THEN flush
        ELSE LET l == Head(lines)
             IN  IF l = <<>> THEN flush \o RenderBlocks(Tail(lines), <<>>)
                 ELSE IF IsHeadingLine(l)
                      THEN flush \o <<RenderHeading(l)>> \o RenderBlocks(Tail(lines), <<>>)
                      ELSE RenderBlocks(Tail(lines),
                                        IF para = <<>> THEN l ELSE para \o <<"\n">> \o l)

RECURSIVE JoinLines(_)
JoinLines(blocks) ==
    IF blocks = <<>> THEN <<>>
    ELSE IF Len(blocks) = 1 THEN blocks[1]
         ELSE blocks[1] \o <<"\n">> \o JoinLines(Tail(blocks))

Markdown(lines) == Strip(JoinLines(RenderBlocks(lines, <<>>)))

\* ------------------------------------------------------------- parse_markdown: the patterns
\* Where the lazy (.*?)(?=<h1>|$) stops: at the next <h1>, at the end of the
\* text, or before a final newline ($ without re.MULTILINE).
FindContentEnd(s, c) ==
    CHOOSE e \in c..(Len(s) + 1) :
        /\ \/ StartsWithAt(s, e, H1Open)
           \/ e = Len(s) + 1
           \/ e = Len(s) /\ s[e] = "\n"
        /\ \A f \in c..(e - 1) :
              ~ \/ StartsWithAt(s, f, H1Open)
                \/ f = Len(s) /\ s[f] = "\n"

\* The pattern with its lookahead reduced to (?=<h1>): an item ends only at a
\* following heading.
RECURSIVE FindAllItemsLookaheadOnly(_, _)
FindAllItemsLookaheadOnly(s, from) ==
    LET i == Find(s, H1Open, from)
        j == IF i = 0 THEN 0 ELSE Find(s, H1Close, i + Len(H1Open))
        e == IF j = 0 THEN 0 ELSE Find(s, H1Open, j + Len(H1Close))
    IN  IF i = 0 \/ j = 0 \/ e = 0 THEN <<>>
        ELSE << <<Slice(s, i + Len(H1Open), j - 1), Slice(s, j + Len(H1Close), e - 1)>> >>
                 \o FindAllItemsLookaheadOnly(s, e)

\* re.findall(r'<h1>(.*?)</h1>(.*?)(?=<h1>|$)', s, re.DOTALL) from position from:
\* the (title, content) pairs of the non-overlapping matches, left to right.
RECURSIVE FindAllItems(_, _)
FindAllItems(s, from) ==
    LET i == Find(s, H1Open, from)
        j == IF i = 0 THEN 0 ELSE Find(s, H1Close, i + Len(H1Open))
    IN  IF i = 0 \/ j = 0 THEN <<>>
        ELSE LET c == j + Len(H1Close)
                 e == FindContentEnd(s, c)
             IN  << <<Slice(s, i + Len(H1Open), j - 1), Slice(s, c, e - 1)>> >>
                     \o FindAllItems(s, e)

\* \d{4}[-/]\d{2}[-/]\d{2} at position i.
DateAt(s, i) ==
    /\ i >= 1
    /\ i + 9 <= Len(s)
    /\ \A k \in {0, 1, 2, 3, 5, 6, 8, 9} : s[i + k] \in Digits
    /\ s[i + 4] \in {"-", "/"}
    /\ s[i + 7] \in {"-", "/"}

\* re.search(r'\s*(\d{4}[-/]\d{2}[-/]\d{2})', s): the leftmost start from which
\* the greedy whitespace run is followed by the date. start = 0: no match;
\* group 1 is s[gstart .. end].
DateSearch(s) ==
    LET hits == {p \in 1..Len(s) : DateAt(s, SkipWs(s, p))}
    IN  IF hits = {} THEN [start |-> 0, gstart |-> 0, end |-> 0]
        ELSE LET p == CHOOSE q \in hits : \A r \in hits : q <= r
             IN  [start |-> p, gstart |-> SkipWs(s, p), end |-> SkipWs(s, p) + 9]

IsLeap(y) == (y % 4 = 0 /\ y % 100 # 0) \/ y % 400 = 0

DaysInMonth(y, m) ==
    IF m = 2 THEN (IF IsLeap(y) THEN 29 ELSE 28)
    ELSE IF m \in {4, 6, 9, 11} THEN 30 ELSE 31

\* datetime.strptime(t, fmt) for a ten-character t and a format %Y?%m?%d:
\* Some(datetime), or None for ValueError (a separator that differs from the
\* format's, a month outside 01-12, a day the month does not have, year 0).
Strptime(t, fmt) ==
    LET y == 1000 * DigitVal(t[1]) + 100 * DigitVal(t[2]) + 10 * DigitVal(t[3]) + DigitVal(t[4])
        m == 10 * DigitVal(t[6]) + DigitVal(t[7])
        d == 10 * DigitVal(t[9]) + DigitVal(t[10])
    IN  IF /\ t[5] = fmt[3]
           /\ t[8] = fmt[6]
           /\ y >= 1
           /\ m \in 1..12
           /\ d \in 1..DaysInMonth(y, m)
        THEN Some([year |-> y, month |-> m, day |-> d, hour |-> 0, minute |-> 0, second |-> 0])
        ELSE None

\* re.search(key + r'\s*(.*?)(?:\n|$)', s): the first occurrence of key, the
\* greedy whitespace after it, then the rest of that line; the match takes the
\* newline that ends the line when there is one.
LineSearch(s, key) ==
    LET p == Find(s, key, 1)
        g == SkipWs(s, p + Len(key))
        n == Find(s, <<"\n">>, g)
    IN  IF p = 0 THEN [start |-> 0, group |-> <<>>, end |-> 0]
        ELSE IF n = 0 THEN [start |-> p, group |-> Slice(s, g, Len(s)), end |-> Len(s)]
             ELSE [start |-> p, group |-> Slice(s, g, n - 1), end |-> n]

\* s[:m.start()] + s[m.end():] for a match on positions start..end.
RemoveSpan(s, start, end) == Slice(s, 1, start - 1) \o Slice(s, end + 1, Len(s))

RECURSIVE StripAll(_)
StripAll(ss) == IF ss = <<>> THEN <<>> ELSE <<Strip(Head(ss))>> \o StripAll(Tail(ss))

\* ------------------------------------------------------------- sanitize_html
Name(str) ==
    CASE str = "a" -> <<"a">>
      [] str = "abbr" -> <<"a", "b", "b", "r">>
      [] str = "acronym" -> <<"a", "c", "r", "o", "n", "y", "m">>
      [] str = "b" -> <<"b">>
      [] str = "blockquote" -> <<"b", "l", "o", "c", "k", "q", "u", "o", "t", "e">>
      [] str = "code" -> <<"c", "o", "d", "e">>
      [] str = "em" -> <<"e", "m">>
      [] str = "i" -> <<"i">>
      [] str = "li" -> <<"l", "i">>
      [] str = "ol" -> <<"o", "l">>
      [] str = "strong" -> <<"s", "t", "r", "o", "n", "g">>
      [] str = "ul" -> <<"u", "l">>
      [] str = "p" -> <<"p">>
      [] str = "br" -> <<"b", "r">>
      [] str = "span" -> <<"s", "p", "a", "n">>
      [] str = "div" -> <<"d", "i", "v">>
      [] str = "h1" -> <<"h", "1">>
      [] str = "h2" -> <<"h", "2">>
      [] str = "h3" -> <<"h", "3">>
      [] str = "h4" -> <<"h", "4">>
      [] str = "h5" -> <<"h", "5">>
      [] str = "h6" -> <<"h", "6">>
      [] str = "pre" -> <<"p", "r", "e">>
      [] str = "href" -> <<"h", "r", "e", "f">>
      [] str = "title" -> <<"t", "i", "t", "l", "e">>
      [] str = "description" -> <<"d", "e", "s", "c", "r", "i", "p", "t", "i", "o", "n">>
      [] str = "link" -> <<"l", "i", "n", "k">>
      [] str = "item" -> <<"i", "t", "e", "m">>
      [] str = "pubDate" -> <<"p", "u", "b", "D", "a", "t", "e">>
      [] str = "category" -> <<"c", "a", "t", "e", "g", "o", "r", "y">>
      [] str = "author" -> <<"a", "u", "t", "h", "o", "r">>
      [] str = "channel" -> <<"c", "h", "a", "n", "n", "e", "l">>

allowed_tags ==
    {Name(t) : t \in {"a", "abbr", "acronym", "b", "blockquote", "code", "em", "i", "li",
                      "ol", "strong", "ul", "p", "br", "span", "div", "h1", "h2", "h3",
                      "h4", "h5", "h6", "pre"}}

allowed_attributes(tag) ==
    IF tag = Name("a") THEN {Name("href"), Name("title")}
    ELSE IF tag \in {Name("abbr"), Name("acronym")} THEN {Name("title")}
    ELSE {}

\* The position after the maximal run of name characters that starts at i.
RECURSIVE SkipName(_, _)
SkipName(s, i) ==
    IF i <= Len(s) /\ s[i] \in (Letters \cup Digits) THEN SkipName(s, i + 1) ELSE i

\* The attributes name="value" of the text t of a tag after its name, from i.
RECURSIVE ParseAttrs(_, _)
ParseAttrs(t, i) ==
    LET a == SkipWs(t, i)
        b == SkipName(t, a)
    IN  IF a > Len(t) \/ b = a THEN <<>>
        ELSE IF b + 1 <= Len(t) /\ t[b] = "=" /\ t[b + 1] = "\""
             THEN LET q == Find(t, <<"\"">>, b + 2)
                      e == IF q = 0 THEN Len(t) + 1 ELSE q
                  IN  <<[name |-> Slice(t, a, b - 1), value |-> Slice(t, b + 2, e - 1)]>>
                          \o ParseAttrs(t, e + 1)
             ELSE <<[name |-> Slice(t, a, b - 1), value |-> <<>>]>> \o ParseAttrs(t, b)

\* A start or end tag opens at i: '<', an optional '/', a name, up to a '>'.
IsTagAt(s, i) ==
    /\ i <= Len(s)
    /\ s[i] = "<"
    /\ \/ i + 1 <= Len(s) /\ s[i + 1] \in Letters
       \/ i + 2 <= Len(s) /\ s[i + 1] = "/" /\ s[i + 2] \in Letters
    /\ \E j \in (i + 1)..Len(s) : s[j] = ">"

\* The tag that opens at i: its raw text, whether it is an end tag, its name
\* and attributes, and the position of its '>'.
TagAt(s, i) ==
    LET j == TagEnd(s, i)
        closing == s[i + 1] = "/"
        n == IF closing THEN i + 2 ELSE i + 1
        m == SkipName(s, n)
    IN  [raw |-> Slice(s, i, j), closing |-> closing, name |-> Slice(s, n, m - 1),
         attrs |-> IF closing THEN <<>> ELSE ParseAttrs(Slice(s, m, j - 1), 1), end |-> j]

\* Every tag of a text from position i on, in order: the tag that opens at the
\* first of the positions starts that is not before i, then those after its end.
RECURSIVE TagsAmong(_, _, _)
TagsAmong(s, starts, i) ==
    LET later == {p \in starts : p >= i}
    IN  IF later = {} THEN <<>>
        ELSE LET p == CHOOSE q \in later : \A r \in later : q <= r
                 t == TagAt(s, p)
             IN  <<t>> \o TagsAmong(s, later, t.end + 1)

TagsOf(s, i) == TagsAmong(s, {p \in i..Len(s) : IsTagAt(s, p)}, i)

RECURSIVE KeepAllowedAttrs(_, _)
KeepAllowedAttrs(tag, attrs) ==
    IF attrs = <<>> THEN <<>>
    ELSE (IF Head(attrs).name \in allowed_attributes(tag) THEN <<Head(attrs)>> ELSE <<>>)
             \o KeepAllowedAttrs(tag, Tail(attrs))

RECURSIVE WriteAttrs(_)
WriteAttrs(attrs) ==
    IF attrs = <<>> THEN <<>>
    ELSE <<" ">> \o Head(attrs).name \o <<"=", "\"">> \o Head(attrs).value \o <<"\"">>
             \o WriteAttrs(Tail(attrs))

WriteTag(t) ==
    IF t.closing THEN <<"<", "/">> \o t.name \o <<">">>
    ELSE <<"<">> \o t.name \o WriteAttrs(KeepAllowedAttrs(t.name, t.attrs)) \o <<">">>

\* The serializer's escaping of text: '&', '<' and '>' become entities.
RECURSIVE EscapeText(_)
EscapeText(s) ==
    IF s = <<>> THEN <<>>
    ELSE (CASE Head(s) = "&" -> AmpEnt
            [] Head(s) = "<" -> LtEnt
            [] Head(s) = ">" -> GtEnt
            [] OTHER -> <<Head(s)>>) \o EscapeText(Tail(s))

IsEntityAt(s, i) == \E e \in {AmpEnt, LtEnt, GtEnt, QuotEnt, AposEnt} : StartsWithAt(s, i, e)

\* bleach.clean(s, tags=allowed_tags, attributes=allowed_attributes) from
\* position i, with strip left at its default False: an allowed tag is written
\* back with its allowed attributes only, any other tag is turned into text, and
\* text is escaped (an entity is kept). pOpen: a <p> is open; the parser closes
\* it before the next <p> and at the end, and an end tag </p> with no <p> open
\* becomes an empty paragraph.
RECURSIVE Clean(_, _, _)
Clean(s, i, pOpen) ==
    IF i > Len(s) THEN (IF pOpen THEN PClose ELSE <<>>)
    ELSE IF IsTagAt(s, i)
         THEN LET t == TagAt(s, i)
              IN  IF t.name \notin allowed_tags
                  THEN EscapeText(t.raw) \o Clean(s, t.end + 1, pOpen)
                  ELSE IF t.name = Name("p")
                       THEN IF t.closing
                            THEN (IF pOpen THEN PClose ELSE POpen \o PClose)
                                     \o Clean(s, t.end + 1, FALSE)
                            ELSE (IF pOpen THEN PClose ELSE <<>>) \o WriteTag(t)
                                     \o Clean(s, t.end + 1, TRUE)
                       ELSE WriteTag(t) \o Clean(s, t.end + 1, pOpen)
         ELSE IF IsEntityAt(s, i)
              THEN LET e == Find(s, <<";">>, i)
                   IN  Slice(s, i, e) \o Clean(s, e + 1, pOpen)
              ELSE EscapeText(<<s[i]>>) \o Clean(s, i + 1, pOpen)

\* The content passed on as it is.
sanitize_html_identity(html_content) == html_content

sanitize_html(html_content) == Clean(html_content, 1, FALSE)

\* ------------------------------------------------------------- the feed document
\* An ElementTree element with text and no children, or with children and no text.
Leaf(tag, text) == [tag |-> tag, text |-> text, children |-> <<>>]
Node(tag, children) == [tag |-> tag, text |-> <<>>, children |-> children]

RECURSIVE SerializeLeaves(_)
SerializeLeaves(elems) ==
    IF elems = <<>> THEN <<>>
    ELSE LET e == Head(elems)
             n == Name(e.tag)
         IN  (IF e.text = <<>> THEN <<"<">> \o n \o <<" ", "/", ">">>
              ELSE <<"<">> \o n \o <<">">> \o EscapeText(e.text) \o <<"<", "/">> \o n \o <<">">>)
                 \o SerializeLeaves(Tail(elems))

\* The children of <channel>: leaves, and items whose children are leaves.
RECURSIVE SerializeChannel(_)
SerializeChannel(elems) ==
    IF elems = <<>> THEN <<>>
    ELSE LET e == Head(elems)
             n == Name(e.tag)
         IN  (IF e.children = <<>> THEN SerializeLeaves(<<e>>)
              ELSE <<"<">> \o n \o <<">">> \o SerializeLeaves(e.children)
                       \o <<"<", "/">> \o n \o <<">">>)
                 \o SerializeChannel(Tail(elems))

XmlDecl == <<"<", "?", "x", "m", "l", " ", "v", "e", "r", "s", "i", "o", "n", "=", "'", "1", ".", "0", "'", " ", "e", "n", "c", "o", "d", "i", "n", "g", "=", "'", "u", "t", "f", "-", "8", "'", "?", ">", "\n">>
RssOpen == <<"<", "r", "s", "s", " ", "v", "e", "r", "s", "i", "o", "n", "=", "\"", "2", ".", "0", "\"", ">">>
RssClose == <<"<", "/", "r", "s", "s", ">">>

\* ET.tostring(rss, encoding="unicode", xml_declaration=True).
tostring(channel_children) ==
    XmlDecl \o RssOpen \o <<"<">> \o Name("channel") \o <<">">>
        \o SerializeChannel(channel_children)
        \o <<"<", "/">> \o Name("channel") \o <<">">> \o RssClose

\* 0 = Saturday .. 6 = Friday (Zeller's congruence).
Weekday(y, m, d) ==
    LET mm == IF m < 3 THEN m + 12 ELSE m
        yy == IF m < 3 THEN y - 1 ELSE y
        k == yy % 100
        j == yy \div 100
    IN  (d + ((13 * (mm + 1)) \div 5) + k + (k \div 4) + (j \div 4) + 5 * j) % 7

DayName(w) ==
    CASE w = 0 -> <<"S", "a", "t">> [] w = 1 -> <<"S", "u", "n">> [] w = 2 -> <<"M", "o", "n">>
      [] w = 3 -> <<"T", "u", "e">> [] w = 4 -> <<"W", "e", "d">> [] w = 5 -> <<"T", "h", "u">>
      [] w = 6 -> <<"F", "r", "i">>

MonthName(m) ==
    CASE m = 1 -> <<"J", "a", "n">> [] m = 2 -> <<"F", "e", "b">> [] m = 3 -> <<"M", "a", "r">>
      [] m = 4 -> <<"A", "p", "r">> [] m = 5 -> <<"M", "a", "y">> [] m = 6 -> <<"J", "u", "n">>
      [] m = 7 -> <<"J", "u", "l">> [] m = 8 -> <<"A", "u", "g">> [] m = 9 -> <<"S", "e", "p">>
      [] m = 10 -> <<"O", "c", "t">> [] m = 11 -> <<"N", "o", "v">> [] m = 12 -> <<"D", "e", "c">>

TwoDigits(n) == <<DigitChar((n \div 10) % 10), DigitChar(n % 10)>>
FourDigits(n) == TwoDigits(n \div 100) \o TwoDigits(n % 100)

\* dt.strftime("%a, %d %b %Y %H:%M:%S +0000").
Strftime(dt) ==
    DayName(Weekday(dt.year, dt.month, dt.day)) \o <<",", " ">> \o TwoDigits(dt.day) \o <<" ">>
        \o MonthName(dt.month) \o <<" ">> \o FourDigits(dt.year) \o <<" ">>
        \o TwoDigits(dt.hour) \o <<":">> \o TwoDigits(dt.minute) \o <<":">> \o TwoDigits(dt.second)
        \o <<" ", "+", "0", "0", "0", "0">>

\* What datetime.now() can return.
Clock == {[year |-> 2026, month |-> 11, day |-> 1, hour |-> 9, minute |-> 30, second |-> 5],
          [year |-> 2026, month |-> 11, day |-> 2, hour |-> 0, minute |-> 0, second |-> 0]}

\* ------------------------------------------------------------- parse_markdown: one item
\* The check for an empty result left out.
NoArticlesNever(found) == FALSE

\* if not items: raise MarkdownParsingError.
NoArticles(found) == found = <<>>

\* The date step with the slice moved out of the try: the match is removed
\* whether or not it parses.
ExtractDateStripAlways(content, fmt) ==
    LET m == DateSearch(content)
        parsed == Strptime(Slice(content, m.gstart, m.end), fmt)
    IN  IF m.start # 0
        THEN [date |-> parsed, content |-> RemoveSpan(content, m.start, m.end),
              warning |-> IF parsed # None THEN None ELSE Some("Invalid date format")]
        ELSE [date |-> None, content |-> content, warning |-> Some("No date found")]

\* The date step: the new date, the new item_content and the warning logged.
\* The slice that removes the match runs after strptime inside the try, so a
\* ValueError leaves item_content as it was.
ExtractDate(content, fmt) ==
    LET m == DateSearch(content)
        parsed == Strptime(Slice(content, m.gstart, m.end), fmt)
    IN  IF m.start # 0
        THEN IF parsed # None
             THEN [date |-> parsed, content |-> RemoveSpan(content, m.start, m.end),
                   warning |-> None]
             ELSE [date |-> None, content |-> content, warning |-> Some("Invalid date format")]
        ELSE [date |-> None, content |-> content, warning |-> Some("No date found")]

\* The categories step splitting the captured text whether or not a line
\* matched: ''.split(',') is [''].
ExtractCategoriesSplitAlways(content) ==
    LET m == LineSearch(content, CategoriesKey)
    IN  [categories |-> StripAll(Split(m.group, ",")),
         content |-> IF m.start # 0 THEN RemoveSpan(content, m.start, m.end) ELSE content]

\* The categories step.
ExtractCategories(content) ==
    LET m == LineSearch(content, CategoriesKey)
    IN  IF m.start # 0
        THEN [categories |-> StripAll(Split(m.group, ",")),
              content |-> RemoveSpan(content, m.start, m.end)]
        ELSE [categories |-> <<>>, content |-> content]

\* The author step.
ExtractAuthor(content) ==
    LET m == LineSearch(content, AuthorKey)
    IN  IF m.start # 0
        THEN [author |-> Some(Strip(m.group)), content |-> RemoveSpan(content, m.start, m.end)]
        ELSE [author |-> None, content |-> content]

\* Article(escape(item_title.strip()), item_content.strip(), date, categories, author).
Article(title, content, dt, cats, auth) ==
    [title |-> escape(Strip(title)), content |-> Strip(content), date |-> dt,
     categories |-> cats, author |-> auth]

\* parsed_items.append(article).
AppendArticle(parsed, article) == Append(parsed, article)

\* ------------------------------------------------------------- markdown_to_rss: one item
RECURSIVE CategoryElements(_)
CategoryElements(cats) ==
    IF cats = <<>> THEN <<>>
    ELSE <<Leaf("category", escape(Head(cats)))>> \o CategoryElements(Tail(cats))

\* if article.author: an absent author and an empty one add no element.
AuthorElements(auth) ==
    IF auth # None /\ auth[1] # <<>> THEN <<Leaf("author", escape(auth[1]))>> ELSE <<>>

\* The children of one <item> with the author added before the categories.
ItemChildrenAuthorFirst(article, pub_date) ==
    <<Leaf("title", article.title), Leaf("description", article.content),
      Leaf("pubDate", pub_date)>>
        \o AuthorElements(article.author) \o CategoryElements(article.categories)

\* The children of one <item>, in the order the SubElement calls add them.
ItemChildren(article, pub_date) ==
    <<Leaf("title", article.title), Leaf("description", article.content),
      Leaf("pubDate", pub_date)>>
        \o CategoryElements(article.categories) \o AuthorElements(article.author)

\* The children of <channel> before the items.
ChannelHead ==
    <<Leaf("title", escape(FeedTitle)), Leaf("description", escape(FeedDescription)),
      Leaf("link", escape(FeedLink))>>

\* ------------------------------------------------------------- control
\* The handler of markdown_to_rss returning instead of re-raising: the caller
\* goes on to write_rss_file.
markdown_to_rss_except_swallow == "write_rss_file"

\* Where an exception caught in markdown_to_rss goes: the handler logs and
\* re-raises it into process_markdown_file.
markdown_to_rss_except == "process_except"

\* Where an exception caught in process_markdown_file goes: the handler logs
\* and re-raises it into main.
process_markdown_file_except == "main_except"

\* The status the process ends with: main returns normally on both paths and
\* nothing calls sys.exit.
ExitStatus == 0

VARIABLES
    pc,                \* the statement about to run
    input_file,        \* the lines of the input file
    date_format,       \* --date-format
    markdown_content,  \* what read_markdown_file returned
    html_content,      \* markdown.markdown(markdown_content)
    items,             \* the (title, content) pairs re.findall returned
    item_content,      \* the loop's item_content as the steps rewrite it
    date,              \* the loop's date
    categories,        \* the loop's categories
    author,            \* the loop's author
    parsed_items,      \* the Article records built so far
    channel,           \* the children of the <channel> element
    rss_feed,          \* the text markdown_to_rss returned
    output_file,       \* the contents of the output file, None while it is not written
    write_calls,       \* the calls of write_rss_file so far
    exc,               \* the exception raised, if any
    log,               \* the logging records emitted
    stdout,            \* what main printed
    exit_status        \* the process's exit status once it has ended

vars == <<pc, input_file, date_format, markdown_content, html_content, items, item_content,
          date, categories, author, parsed_items, channel, rss_feed, output_file,
          write_calls, exc, log, stdout, exit_status>>

io == <<output_file, write_calls, stdout, exit_status>>
locals == <<item_content, date, categories, author>>
args == <<input_file, date_format>>

Init ==
    /\ pc = "process_markdown_file"
    /\ input_file \in InputFiles
    /\ date_format \in DateFormats
    /\ markdown_content = None
    /\ html_content = None
    /\ items = <<>>
    /\ item_content = <<>>
    /\ date = None
    /\ categories = <<>>
    /\ author = None
    /\ parsed_items = <<>>
    /\ channel = <<>>
    /\ rss_feed = None
    /\ output_file = None
    /\ write_calls = 0
    /\ exc = None
    /\ log = <<>>
    /\ stdout = <<>>
    /\ exit_status = None

Raise(type, stage, msg) == Some([type |-> type, stage |-> stage, msg |-> msg])
Record(level, msg, about) == [level |-> level, msg |-> msg, about |-> about]

\* read_markdown_file returns the file's contents.
ReadOk ==
    /\ pc = "process_markdown_file"
    /\ markdown_content' = Some(input_file)
    /\ pc' = "markdown_to_rss"
    /\ UNCHANGED <<args, html_content, items, locals, parsed_items, channel, rss_feed, io,
                   exc, log>>

\* read_markdown_file fails: it logs the IOError and re-raises it.
ReadFail ==
    /\ pc = "process_markdown_file"
    /\ exc' = Raise("IOError", "read", "cannot read")
    /\ log' = Append(log, Record("ERROR", "Error reading file", <<>>))
    /\ pc' = "process_except"
    /\ UNCHANGED <<args, markdown_content, html_content, items, locals, parsed_items,
                   channel, rss_feed, io>>

\* markdown_to_rss builds <rss><channel> and the feed's title, description, link.
BuildChannel ==
    /\ pc = "markdown_to_rss"
    /\ channel' = ChannelHead
    /\ pc' = "parse_markdown"
    /\ UNCHANGED <<args, markdown_content, html_content, items, locals, parsed_items,
                   rss_feed, io, exc, log>>

\* parse_markdown renders the text and finds the items; with none it raises
\* MarkdownParsingError, which its own handler wraps in another one. Otherwise
\* the for loop starts (and a loop over no items would return at once).
FindItems ==
    /\ pc = "parse_markdown"
    /\ LET html == Markdown(markdown_content[1])
           found == FindAllItems(html, 1)
       IN  /\ html_content' = Some(html)
           /\ items' = found
           /\ IF NoArticles(found)
              THEN /\ exc' = Raise("MarkdownParsingError", "parse",
                                   "Error parsing Markdown content: No articles found in the Markdown content.")
                   /\ pc' = "markdown_to_rss_except"
                   /\ UNCHANGED item_content
              ELSE /\ IF found = <<>>
                      THEN UNCHANGED item_content /\ pc' = "add_items"
                      ELSE item_content' = found[1][2] /\ pc' = "date"
                   /\ UNCHANGED exc
    /\ UNCHANGED <<args, markdown_content, date, categories, author, parsed_items, channel,
                   rss_feed, io, log>>

item_title == items[Len(parsed_items) + 1][1]

DateStep ==
    /\ pc = "date"
    /\ LET r == ExtractDate(item_content, date_format)
       IN  /\ date' = r.date
           /\ item_content' = r.content
           /\ log' = IF r.warning = None THEN log
                     ELSE Append(log, Record("WARNING", r.warning[1], item_title))
    /\ pc' = "categories"
    /\ UNCHANGED <<args, markdown_content, html_content, items, categories, author,
                   parsed_items, channel, rss_feed, io, exc>>

CategoriesStep ==
    /\ pc = "categories"
    /\ LET r == ExtractCategories(item_content)
       IN  /\ categories' = r.categories
           /\ item_content' = r.content
    /\ pc' = "author"
    /\ UNCHANGED <<args, markdown_content, html_content, items, date, author, parsed_items,
                   channel, rss_feed, io, exc, log>>

AuthorStep ==
    /\ pc = "author"
    /\ LET r == ExtractAuthor(item_content)
       IN  /\ author' = r.author
           /\ item_content' = r.content
    /\ pc' = "sanitize"
    /\ UNCHANGED <<args, markdown_content, html_content, items, date, categories,
                   parsed_items, channel, rss_feed, io, exc, log>>

\* The item's content is sanitized and its Article appended; the loop goes on
\* to the next item, or parse_markdown returns.
SanitizeStep ==
    /\ pc = "sanitize"
    /\ LET article == Article(item_title, sanitize_html(item_content), date, categories, author)
           parsed == AppendArticle(parsed_items, article)
       IN  /\ parsed_items' = parsed
           /\ IF Len(parsed) < Len(items)
              THEN /\ item_content' = items[Len(parsed) + 1][2]
                   /\ pc' = "date"
              ELSE /\ item_content' = <<>>
                   /\ pc' = "add_items"
    /\ UNCHANGED <<args, markdown_content, html_content, items, date, categories, author,
                   channel, rss_feed, io, exc, log>>

\* markdown_to_rss adds the <item> of the next article; an article without a
\* date gets the current time and a warning.
AddItem ==
    /\ pc = "add_items"
    /\ Len(channel) - Len(ChannelHead) < Len(parsed_items)
    /\ LET article == parsed_items[Len(channel) - Len(ChannelHead) + 1]
       IN  IF article.date # None
           THEN /\ channel' = Append(channel,
                        Node("item", ItemChildren(article, Strftime(article.date[1]))))
                /\ UNCHANGED log
           ELSE \E now \in Clock :
                /\ channel' = Append(channel, Node("item", ItemChildren(article, Strftime(now))))
                /\ log' = Append(log, Record("WARNING", "Using current date", article.title))
    /\ UNCHANGED <<pc, args, markdown_content, html_content, items, locals, parsed_items,
                   rss_feed, io, exc>>

\* ET.tostring renders the document and markdown_to_rss returns it.
Serialize ==
    /\ pc = "add_items"
    /\ Len(channel) - Len(ChannelHead) = Len(parsed_items)
    /\ rss_feed' = Some(tostring(channel))
    /\ pc' = "write_rss_file"
    /\ UNCHANGED <<args, markdown_content, html_content, items, locals, parsed_items,
                   channel, io, exc, log>>

\* Building or rendering the tree raises (MemoryError, say).
SerializeFail ==
    /\ pc = "add_items"
    /\ exc' = Raise("Exception", "serialize", "serialization failed")
    /\ pc' = "markdown_to_rss_except"
    /\ UNCHANGED <<args, markdown_content, html_content, items, locals, parsed_items,
                   channel, rss_feed, io, log>>

\* except Exception in markdown_to_rss: log, raise.
MarkdownToRssExcept ==
    /\ pc = "markdown_to_rss_except"
    /\ log' = Append(log, Record("ERROR", "Error generating RSS feed", <<>>))
    /\ pc' = markdown_to_rss_except
    /\ UNCHANGED <<args, markdown_content, html_content, items, locals, parsed_items,
                   channel, rss_feed, io, exc>>

\* write_rss_file writes the feed; process_markdown_file logs its success.
WriteOk ==
    /\ pc = "write_rss_file"
    /\ output_file' = Some(Flatten(rss_feed))
    /\ write_calls' = write_calls + 1
    /\ log' = log \o <<Record("INFO", "RSS feed successfully written", <<>>),
                       Record("INFO", "Successfully processed", <<>>)>>
    /\ pc' = "main_success"
    /\ UNCHANGED <<args, markdown_content, html_content, items, locals, parsed_items,
                   channel, rss_feed, exc, stdout, exit_status>>

\* write_rss_file fails: open() fails and the file is untouched, or open()
\* has truncated the file and write() fails. It logs the IOError and re-raises.
WriteFail ==
    /\ pc = "write_rss_file"
    /\ \/ UNCHANGED output_file
       \/ output_file' = Some(<<>>)
    /\ write_calls' = write_calls + 1
    /\ exc' = Raise("IOError", "write", "cannot write")
    /\ log' = Append(log, Record("ERROR", "Error writing to file", <<>>))
    /\ pc' = "process_except"
    /\ UNCHANGED <<args, markdown_content, html_content, items, locals, parsed_items,
                   channel, rss_feed, stdout, exit_status>>

\* except Exception in process_markdown_file: log, raise.
ProcessExcept ==
    /\ pc = "process_except"
    /\ log' = Append(log, Record("ERROR", "Error processing file", <<>>))
    /\ pc' = process_markdown_file_except
    /\ UNCHANGED <<args, markdown_content, html_content, items, locals, parsed_items,
                   channel, rss_feed, io, exc>>

\* main prints the success message.
MainSuccess ==
    /\ pc = "main_success"
    /\ stdout' = Append(stdout, [text |-> "RSS feed generated successfully. Check", arg |-> "output_file"])
    /\ pc' = "exit"
    /\ UNCHANGED <<args, markdown_content, html_content, items, locals, parsed_items,
                   channel, rss_feed, output_file, write_calls, exit_status, exc, log>>

\* except Exception in main: print the message; the exception ends here.
MainExcept ==
    /\ pc = "main_except"
    /\ stdout' = Append(stdout, [text |-> "An error occurred:", arg |-> exc[1].msg])
    /\ pc' = "exit"
    /\ UNCHANGED <<args, markdown_content, html_content, items, locals, parsed_items,
                   channel, rss_feed, output_file, write_calls, exit_status, exc, log>>

\* main returns and the interpreter exits.
Exit ==
    /\ pc = "exit"
    /\ exit_status' = Some(ExitStatus)
    /\ pc' = "exited"
    /\ UNCHANGED <<args, markdown_content, html_content, items, locals, parsed_items,
                   channel, rss_feed, output_file, write_calls, stdout, exc, log>>

Next ==
    \/ ReadOk
    \/ ReadFail
    \/ BuildChannel
    \/ FindItems
    \/ DateStep
    \/ CategoriesStep
    \/ AuthorStep
    \/ SanitizeStep
    \/ AddItem
    \/ Serialize
    \/ SerializeFail
    \/ MarkdownToRssExcept
    \/ WriteOk
    \/ WriteFail
    \/ ProcessExcept
    \/ MainSuccess
    \/ MainExcept
    \/ Exit

Spec == Init /\ [][Next]_vars

\* ------------------------------------------------------------- properties
\* p occurs in s.
Contains(s, p) == Find(s, p, 1) # 0

\* The number of positions of s at which p occurs.
CountOcc(s, p) == Cardinality({i \in 1..Len(s) : StartsWithAt(s, i, p)})

\* The statements of the loop body of parse_markdown.
LoopPcs == {"date", "categories", "author", "sanitize"}

\* The rendered text, once parse_markdown has produced it.
Html == Flatten(html_content)

\* N: the number of top-level headings of the rendered text.
HeadingCount == CountOcc(Html, H1Open)

\* The position of the k-th <h1> of the rendered text.
HeadingPos(k) ==
    CHOOSE p \in 1..Len(Html) :
        /\ StartsWithAt(Html, p, H1Open)
        /\ Cardinality({q \in 1..p : StartsWithAt(Html, q, H1Open)}) = k

\* The text of the k-th heading, and the text from its end to the next
\* heading or to the end of the document.
HeadingTitle(k) ==
    Slice(Html, HeadingPos(k) + Len(H1Open),
          Find(Html, H1Close, HeadingPos(k) + Len(H1Open)) - 1)

HeadingContent(k) ==
    Slice(Html, Find(Html, H1Close, HeadingPos(k) + Len(H1Open)) + Len(H1Close),
          IF k < HeadingCount THEN HeadingPos(k + 1) - 1 ELSE Len(Html))

\* re.findall has just returned its items: the loop is at its first statement.
ItemsFound == pc = "date" /\ parsed_items = <<>>

\* parse_markdown has just returned its records to markdown_to_rss.
ParseReturned == pc = "add_items" /\ Len(channel) = Len(ChannelHead)

\* markdown_to_rss has just returned the feed text.
FeedReturned == pc = "write_rss_file"

\* C1: with N >= 1 top-level headings in the rendered text, re.findall yields
\* N items, the k-th being the k-th heading's text and everything after that
\* heading up to the next heading or the end of the document, and
\* parse_markdown returns N records, the k-th titled after the k-th heading.
C1_RecordPerHeading ==
    /\ (exc # None /\ exc[1].stage = "parse") => HeadingCount = 0
    /\ ItemsFound =>
          /\ Len(items) = HeadingCount
          /\ \A k \in 1..HeadingCount : items[k] = <<HeadingTitle(k), HeadingContent(k)>>
    /\ ParseReturned =>
          /\ Len(parsed_items) = HeadingCount
          /\ \A k \in 1..HeadingCount :
                parsed_items[k].title = escape(Strip(HeadingTitle(k)))

\* Two records were returned and the last heading has content after it.
C1_Witness ==
    /\ ParseReturned
    /\ Len(parsed_items) = 2
    /\ HeadingCount = 2
    /\ items[2][2] # <<>>
    /\ parsed_items[2].content # <<>>

\* C2: with no top-level heading in the rendered text, parse_markdown raises
\* MarkdownParsingError, the error passes through the handlers of
\* markdown_to_rss and process_markdown_file into main, and neither a feed
\* text nor an output file is produced: write_rss_file is never called.
C2_NoHeadingFails ==
    (html_content # None /\ HeadingCount = 0) =>
        /\ exc # None
        /\ exc[1].type = "MarkdownParsingError"
        /\ pc \in {"markdown_to_rss_except", "process_except", "main_except", "exit", "exited"}
        /\ rss_feed = None
        /\ output_file = None
        /\ write_calls = 0
        /\ pc \in {"main_except", "exit", "exited"} =>
              /\ \E i \in 1..Len(log) : log[i].msg = "Error generating RSS feed"
              /\ \E i \in 1..Len(log) : log[i].msg = "Error processing file"

\* The error of a text without headings has reached main.
C2_Witness ==
    /\ pc = "main_except"
    /\ html_content # None
    /\ HeadingCount = 0
    /\ exc # None
    /\ exc[1].type = "MarkdownParsingError"

\* C3: write_rss_file is called at most once, and only with reading,
\* extraction and serialization done; when one of these fails the output file
\* stays unwritten and the error reaches main.
C3_WriteOnlyAfterSuccess ==
    /\ write_calls <= 1
    /\ output_file # None => write_calls = 1
    /\ write_calls = 1 =>
          /\ markdown_content # None
          /\ html_content # None
          /\ Len(parsed_items) = Len(items)
          /\ Len(channel) = Len(ChannelHead) + Len(parsed_items)
          /\ rss_feed # None
          /\ exc # None => exc[1].stage = "write"
    /\ (exc # None /\ exc[1].stage \in {"read", "parse", "serialize"}) =>
          /\ output_file = None
          /\ write_calls = 0
          /\ pc \in {"markdown_to_rss_except", "process_except", "main_except", "exit", "exited"}
          /\ pc \in {"exit", "exited"} =>
                stdout = <<[text |-> "An error occurred:", arg |-> exc[1].msg]>>

\* A run that failed in serialization has ended with nothing written.
C3_Witness ==
    /\ pc = "exited"
    /\ exc # None
    /\ exc[1].stage = "serialize"
    /\ output_file = None

\* C4: when the conversion fails main prints the error message and the
\* process ends with a non-zero status; it prints the success message only
\* when the conversion succeeded.
C4_FailureExitsNonZero ==
    pc = "exited" =>
        /\ exc # None =>
              /\ stdout = <<[text |-> "An error occurred:", arg |-> exc[1].msg]>>
              /\ exit_status # Some(0)
        /\ exc = None =>
              stdout = <<[text |-> "RSS feed generated successfully. Check", arg |-> "output_file"]>>

\* The number of <item> children of the channel.
ItemCount == Cardinality({i \in 1..Len(channel) : channel[i].tag = "item"})

\* C5: no date, a date that matches the pattern and does not parse, no
\* Categories line and no Author line do not abort parse_markdown and do not
\* drop the article: the record is built with the date absent, the categories
\* empty, the author absent, one record per item, and markdown_to_rss emits
\* one <item> per record.
C5_AnomaliesTolerated ==
    /\ (exc # None /\ exc[1].stage = "parse") => items = <<>>
    /\ ParseReturned =>
          /\ Len(parsed_items) = Len(items)
          /\ \A k \in 1..Len(parsed_items) :
                LET body == items[k][2]
                    m == DateSearch(body)
                IN  /\ m.start = 0 => parsed_items[k].date = None
                    /\ (m.start # 0 /\ Strptime(Slice(body, m.gstart, m.end), date_format) = None)
                          => parsed_items[k].date = None
                    /\ ~Contains(body, CategoriesKey) => parsed_items[k].categories = <<>>
                    /\ ~Contains(body, AuthorKey) => parsed_items[k].author = None
    /\ FeedReturned =>
          /\ Len(parsed_items) = Len(items)
          /\ ItemCount = Len(parsed_items)
          /\ CountOcc(rss_feed[1], <<"<">> \o Name("item") \o <<">">>) = Len(parsed_items)

\* A feed was produced from an article whose date matched and did not parse
\* and which has neither categories nor an author.
C5_Witness ==
    /\ FeedReturned
    /\ \E k \in 1..Len(parsed_items) :
          /\ DateSearch(items[k][2]).start # 0
          /\ parsed_items[k].date = None
          /\ parsed_items[k].categories = <<>>
          /\ parsed_items[k].author = None

HasAuthor(article) == article.author # None /\ article.author[1] # <<>>

RECURSIVE TagNames(_)
TagNames(elems) == IF elems = <<>> THEN <<>> ELSE <<Head(elems).tag>> \o TagNames(Tail(elems))

\* The names of the start tags of a text, in order.
RECURSIVE StartTagNames(_)
StartTagNames(tags) ==
    IF tags = <<>> THEN <<>>
    ELSE (IF Head(tags).closing THEN <<>> ELSE <<Head(tags).name>>) \o StartTagNames(Tail(tags))

\* The tag names an article's <item> is to show, itself included.
ExpectedItemTags(article) ==
    <<"item", "title", "description", "pubDate">>
        \o [c \in 1..Len(article.categories) |-> "category"]
        \o (IF HasAuthor(article) THEN <<"author">> ELSE <<>>)

RECURSIVE ExpectedItemsTags(_)
ExpectedItemsTags(articles) ==
    IF articles = <<>> THEN <<>>
    ELSE ExpectedItemTags(Head(articles)) \o ExpectedItemsTags(Tail(articles))

RECURSIVE Names(_)
Names(strs) == IF strs = <<>> THEN <<>> ELSE <<Name(Head(strs))>> \o Names(Tail(strs))

\* C6: in the feed the channel holds title, description, link and then one
\* item per record in record order; an item's children are title, description,
\* pubDate, one category per label in the record's order, then an author
\* exactly when the record has one; the feed text shows the same order.
C6_ItemOrder ==
    FeedReturned =>
        /\ Len(channel) = Len(ChannelHead) + Len(parsed_items)
        /\ TagNames(SubSeq(channel, 1, 3)) = <<"title", "description", "link">>
        /\ \A k \in 1..Len(parsed_items) :
              LET a == parsed_items[k]
                  it == channel[Len(ChannelHead) + k]
                  ch == it.children
                  n == Len(a.categories)
              IN  /\ it.tag = "item"
                  /\ TagNames(ch) = Tail(ExpectedItemTags(a))
                  /\ ch[1].text = a.title
                  /\ ch[2].text = a.content
                  /\ \A c \in 1..n : ch[3 + c].text = escape(a.categories[c])
                  /\ HasAuthor(a) => ch[4 + n].text = escape(a.author[1])
        /\ StartTagNames(TagsOf(rss_feed[1], 1)) =
              <<<<"r", "s", "s">>>>
                  \o Names(<<"channel", "title", "description", "link">>
                               \o ExpectedItemsTags(parsed_items))

\* A feed was produced from a record with two categories and an author.
C6_Witness ==
    /\ FeedReturned
    /\ \E k \in 1..Len(parsed_items) :
          /\ Len(parsed_items[k].categories) = 2
          /\ HasAuthor(parsed_items[k])

TitleElement(text) ==
    <<"<">> \o Name("title") \o <<">">> \o text \o <<"<", "/">> \o Name("title") \o <<">">>

\* C7: a title holding '<' or '&' is escaped once on its way into the feed
\* text: the feed shows <title> with the title's single-level entities.
C7_TitleEscapedOnce ==
    FeedReturned =>
        \A k \in 1..Len(items) :
            LET t == Strip(items[k][1])
            IN  (Contains(t, <<"<">>) \/ Contains(t, <<"&">>)) =>
                    Contains(rss_feed[1], TitleElement(escape(t)))

\* The lines of the input between its k-th heading line and the next one.
HeadingLine(k) ==
    CHOOSE p \in 1..Len(input_file) :
        /\ IsHeadingLine(input_file[p])
        /\ Cardinality({q \in 1..p : IsHeadingLine(input_file[q])}) = k

BlockLines(k) ==
    {p \in (HeadingLine(k) + 1)..Len(input_file) :
        \A q \in (HeadingLine(k) + 1)..p : ~IsHeadingLine(input_file[q])}

\* C8: a block with the line "Categories: A, B" gives the record the
\* categories <<"A", "B">>, nothing else attached, and a body without that
\* line; a block without a Categories line gives it no categories.
C8_CategoriesExact ==
    ParseReturned =>
        \A k \in 1..Len(parsed_items) :
            LET n == Cardinality({p \in BlockLines(k) : input_file[p] = LineCategories})
            IN  /\ n = 1 =>
                      /\ parsed_items[k].categories = <<<<"A">>, <<"B">>>>
                      /\ ~Contains(parsed_items[k].content, CategoriesKey)
                /\ n = 0 => parsed_items[k].categories = <<>>

\* The content of the item the loop is at, as re.findall captured it.
CurrentItemContent == items[Len(parsed_items) + 1][2]

\* C9 as stated: after the date step the matched text is gone from
\* item_content whether or not it parsed, and item_content is as it was only
\* when nothing matched.
C9_MatchAlwaysStripped ==
    pc = "categories" =>
        LET m == DateSearch(CurrentItemContent)
        IN  IF m.start # 0
            THEN item_content = RemoveSpan(CurrentItemContent, m.start, m.end)
            ELSE item_content = CurrentItemContent

\* C9 amended: after the date step the matched text is gone from item_content
\* when it parsed under the date format; a match that does not parse leaves
\* the date absent and item_content as it was, and so does no match.
C9_StrippedOnlyWhenParsed ==
    pc = "categories" =>
        LET m == DateSearch(CurrentItemContent)
            parsed == Strptime(Slice(CurrentItemContent, m.gstart, m.end), date_format)
        IN  /\ (m.start # 0 /\ parsed # None) =>
                  /\ date = parsed
                  /\ item_content = RemoveSpan(CurrentItemContent, m.start, m.end)
            /\ (m.start # 0 /\ parsed = None) =>
                  /\ date = None
                  /\ item_content = CurrentItemContent
            /\ m.start = 0 =>
                  /\ date = None
                  /\ item_content = CurrentItemContent

\* The date step has run on a match that did not parse: the text is still there.
C9_Witness ==
    /\ pc = "categories"
    /\ date = None
    /\ DateSearch(CurrentItemContent).start # 0
    /\ DateSearch(item_content).start # 0

\* The tags of a text, as a set of positions in its tag sequence.
TagSet(s) == {TagsOf(s, 1)[i] : i \in 1..Len(TagsOf(s, 1))}

OnlyAllowedMarkup(s) ==
    \A t \in TagSet(s) :
        /\ t.name \in allowed_tags
        /\ \A i \in 1..Len(t.attrs) : t.attrs[i].name \in allowed_attributes(t.name)

AllowedKept(body, out) ==
    \A t \in TagSet(body) : t.name \in allowed_tags => Contains(out, WriteTag(t))

\* The record SanitizeStep appends.
NewRecord == parsed_items'[Len(parsed_items')]

\* C10 as stated: the sanitized body holds no tag outside the allow-list and
\* no attribute outside the allowed ones, an allowed tag is kept, and a
\* disallowed tag is removed: neither the tag nor its escaped text is there.
C10_DisallowedRemoved ==
    [][pc = "sanitize" =>
          /\ OnlyAllowedMarkup(NewRecord.content)
          /\ AllowedKept(item_content, NewRecord.content)
          /\ \A t \in TagSet(item_content) :
                t.name \notin allowed_tags =>
                    /\ ~Contains(NewRecord.content, t.raw)
                    /\ ~Contains(NewRecord.content, EscapeText(t.raw))]_vars

\* C10 amended: the sanitized body holds no tag outside the allow-list and no
\* attribute outside the allowed ones, an allowed tag is kept, and a
\* disallowed tag is not removed but escaped: it is there as text, with its
\* angle brackets written as entities, and not as a tag.
C10_DisallowedEscaped ==
    [][pc = "sanitize" =>
          /\ OnlyAllowedMarkup(NewRecord.content)
          /\ AllowedKept(item_content, NewRecord.content)
          /\ \A t \in TagSet(item_content) :
                t.name \notin allowed_tags =>
                    /\ ~Contains(NewRecord.content, t.raw)
                    /\ Contains(NewRecord.content, EscapeText(t.raw))]_vars

EscScriptOpen == <<"&", "l", "t", ";", "s", "c", "r", "i", "p", "t", "&", "g", "t", ";">>
EmKept == <<"<", "e", "m", ">", "e", "<", "/", "e", "m", ">">>
AnchorKept == <<"<", "a", " ", "h", "r", "e", "f", "=", "\"", "u", "\"", ">", "t", "<", "/", "a", ">">>

\* A record's body holds the escaped script tag, and one holds the emphasis
\* and the anchor with its href alone.
C10_Witness ==
    /\ \E k \in 1..Len(parsed_items) : Contains(parsed_items[k].content, EscScriptOpen)
    /\ \E k \in 1..Len(parsed_items) :
          /\ Contains(parsed_items[k].content, EmKept)
          /\ Contains(parsed_items[k].content, AnchorKept)

====
